---- MODULE Spec2Model ----
(***************************************************************************)
(* Model of src/api.py: the text analyzer (detect_birth_year, detect_age,  *)
(* estimate_age, detect_location), the life-expectancy resolver            *)
(* (get_life_expectancy), the remaining-life calculator                    *)
(* (compute_remaining_life) and the request handler (index).               *)
(*                                                                         *)
(* Python strings are TLA+ strings; a character is a string of length 1.   *)
(* An optional value (Python's None or a value) is a tuple: << >> is None  *)
(* and <<v>> is the value v.                                               *)
(***************************************************************************)
EXTENDS Integers, Sequences, FiniteSets, TLC

VARIABLES
    df,           \* the table read at start-up (api.py:15): a sequence of rows
    columns,      \* df.columns after stripping (api.py:21): a sequence of names
    currentYear,  \* what datetime.now().year returns (api.py:43, 62)
    text,         \* the text handed to the analyzer / the form's user_text
    op,           \* the function or handler that ran last ("idle": none yet)
    args,         \* the arguments of that call
    ret,          \* what it returned
    calls,        \* the functions the handler called, in order
    uploads       \* the file names written to the uploads directory (api.py:180)

vars == <<df, columns, currentYear, text, op, args, ret, calls, uploads>>

None == << >>
Some(v) == <<v>>

\* min() and max() of a non-empty set
Min(S) == CHOOSE x \in S : \A y \in S : x <= y
Max(S) == CHOOSE x \in S : \A y \in S : x >= y

-----------------------------------------------------------------------------
(* Strings *)

Ch(s, i) == SubSeq(s, i, i)

UpperAlphabet == "ABCDEFGHIJKLMNOPQRSTUVWXYZ"
LowerAlphabet == "abcdefghijklmnopqrstuvwxyz"

\* the lower-case letter of each upper-case letter
LowerOf ==
    [c \in {Ch(UpperAlphabet, i) : i \in 1..Len(UpperAlphabet)} |->
        Ch(LowerAlphabet, CHOOSE i \in 1..Len(UpperAlphabet) : Ch(UpperAlphabet, i) = c)]

\* str.lower() on one character (ASCII letters)
LowerChar(c) == IF c \in DOMAIN LowerOf THEN LowerOf[c] ELSE c

RECURSIVE Lower(_)
Lower(s) == IF s = "" THEN "" ELSE LowerChar(Head(s)) \o Lower(Tail(s))

\* s[i-1:].startswith(w): w occurs in s at position i (from 1)
StartsAt(s, i, w) == i + Len(w) - 1 <= Len(s) /\ SubSeq(s, i, i + Len(w) - 1) = w

\* Python's  sub in s
Contains(sub, s) ==
    \E i \in 0..(Len(s) - Len(sub)) : SubSeq(s, i + 1, i + Len(sub)) = sub

Digits == <<"0", "1", "2", "3", "4", "5", "6", "7", "8", "9">>
IsDigit(c) == \E d \in 1..Len(Digits) : Digits[d] = c
DigitVal(c) == (CHOOSE d \in 1..Len(Digits) : Digits[d] = c) - 1
IsSpace(c) == c \in {" ", "\t", "\n", "\r", "\f"}

\* int(m) for a string of decimal digits
RECURSIVE ParseInt(_)
ParseInt(s) ==
    IF s = "" THEN 0
    ELSE ParseInt(SubSeq(s, 1, Len(s) - 1)) * 10 + DigitVal(Ch(s, Len(s)))

AllDigits(s) == \A i \in 1..Len(s) : IsDigit(Ch(s, i))

\* str.strip(): leading and trailing whitespace removed
RECURSIVE LStrip(_)
LStrip(s) == IF s # "" /\ IsSpace(Head(s)) THEN LStrip(Tail(s)) ELSE s
RECURSIVE RStrip(_)
RStrip(s) ==
    IF s # "" /\ IsSpace(Ch(s, Len(s))) THEN RStrip(SubSeq(s, 1, Len(s) - 1)) ELSE s
Strip(s) == RStrip(LStrip(s))

-----------------------------------------------------------------------------
(* detect_birth_year, api.py:38-48 *)

\* the pattern (19[0-9]{2}|20[0-2][0-9]) matches at position i of t
YearPatternAt(t, i) ==
    /\ i + 3 <= Len(t)
    /\ \/ /\ StartsAt(t, i, "19")
          /\ IsDigit(Ch(t, i + 2))
          /\ IsDigit(Ch(t, i + 3))
       \/ /\ StartsAt(t, i, "20")
          /\ Ch(t, i + 2) \in {"0", "1", "2"}
          /\ IsDigit(Ch(t, i + 3))

\* re.findall(pattern, text): leftmost matches, left to right, not overlapping
RECURSIVE FindAllYears(_, _)
FindAllYears(t, i) ==
    IF i > Len(t) THEN << >>
    ELSE IF YearPatternAt(t, i)
         THEN <<SubSeq(t, i, i + 3)>> \o FindAllYears(t, i + 4)
         ELSE FindAllYears(t, i + 1)

MinBirthYear == 1900

DetectBirthYearFirstOnly(t) ==
    LET matches == FindAllYears(t, 1)
    IN  IF matches = << >> THEN None
        ELSE IF MinBirthYear <= ParseInt(matches[1]) /\ ParseInt(matches[1]) <= currentYear
             THEN Some(ParseInt(matches[1]))
             ELSE None

DetectBirthYear(t) ==
    LET matches == FindAllYears(t, 1)
        ok == SelectSeq(matches,
                        LAMBDA m : MinBirthYear <= ParseInt(m) /\ ParseInt(m) <= currentYear)
    IN  IF matches = << >> THEN None
        ELSE IF ok # << >> THEN Some(ParseInt(ok[1])) ELSE None

-----------------------------------------------------------------------------
(* detect_age, api.py:51-57 *)

\* the longest whitespace run starting at position j of t ends before this position
RECURSIVE SkipSpaces(_, _)
SkipSpaces(t, j) ==
    IF j <= Len(t) /\ IsSpace(Ch(t, j)) THEN SkipSpaces(t, j + 1) ELSE j

\* (\d{k})\s*ans matches at position i of t, the digits being exactly k:
\* \s* may give whitespace back, but "ans" starts with no whitespace
AgePatternAt(t, i, k) ==
    /\ i + k - 1 <= Len(t)
    /\ AllDigits(SubSeq(t, i, i + k - 1))
    /\ \E j \in (i + k)..SkipSpaces(t, i + k) : StartsAt(t, j, "ans")

\* the number of digits \d{1,3} ends with at position i: greedy, three first (0: no match)
AgeDigitsAt(t, i) ==
    IF AgePatternAt(t, i, 3) THEN 3
    ELSE IF AgePatternAt(t, i, 2) THEN 2
    ELSE IF AgePatternAt(t, i, 1) THEN 1
    ELSE 0

\* re.findall(r"(\d{1,3})\s*ans", text): the groups of the matches, left to right;
\* the scan goes on after the match's "ans"
RECURSIVE FindAllAges(_, _)
FindAllAges(t, i) ==
    IF i > Len(t) THEN << >>
    ELSE LET k == AgeDigitsAt(t, i)
         IN  IF k > 0
             THEN <<SubSeq(t, i, i + k - 1)>>
                  \o FindAllAges(t, SkipSpaces(t, i + k) + 3)
             ELSE FindAllAges(t, i + 1)

MaxAge == 120

DetectAgeFirstMatchOnly(t) ==
    LET matches == FindAllAges(t, 1)
    IN  IF matches = << >> THEN None
        ELSE IF 0 < ParseInt(matches[1]) /\ ParseInt(matches[1]) < MaxAge
             THEN Some(ParseInt(matches[1]))
             ELSE None

DetectAge(t) ==
    LET matches == FindAllAges(t, 1)
        candidates == SelectSeq(matches,
                                LAMBDA x : 0 < ParseInt(x) /\ ParseInt(x) < MaxAge)
    IN  IF matches = << >> THEN None
        ELSE IF candidates # << >> THEN Some(ParseInt(candidates[1])) ELSE None

-----------------------------------------------------------------------------
(* estimate_age, api.py:60-75 *)

EstimateAgePrefersBirthYear(t) ==
    LET low == Lower(t)
        age_direct == DetectAge(low)
        birth_year == DetectBirthYear(low)
    IN  IF birth_year # None /\ 0 < currentYear - birth_year[1]
                             /\ currentYear - birth_year[1] < MaxAge
        THEN Some(currentYear - birth_year[1])
        ELSE age_direct

EstimateAgeAcceptsZero(t) ==
    LET low == Lower(t)
        age_direct == DetectAge(low)
        birth_year == DetectBirthYear(low)
    IN  IF age_direct # None THEN age_direct
        ELSE IF birth_year # None /\ 0 <= currentYear - birth_year[1]
                                  /\ currentYear - birth_year[1] < MaxAge
             THEN Some(currentYear - birth_year[1])
             ELSE None

EstimateAge(t) ==
    LET low == Lower(t)
        age_direct == DetectAge(low)
        birth_year == DetectBirthYear(low)
    IN  IF age_direct # None THEN age_direct
        ELSE IF birth_year # None /\ 0 < currentYear - birth_year[1]
                                  /\ currentYear - birth_year[1] < MaxAge
             THEN Some(currentYear - birth_year[1])
             ELSE None

-----------------------------------------------------------------------------
(* The dataset, api.py:14-25 *)

\* the columns every dataset has (api.py:23, 24, 107); the others follow them
KeyColumns == <<"year_id", "location_name", "scenario_name">>

\* a row: its three key cells, and the cells of the other columns, in order;
\* expectancies are decimal numbers, kept in tenths (823 is 82.3)
Row(loc, year, scenario, cells) ==
    [location_name |-> loc, year_id |-> year, scenario_name |-> scenario, cells |-> cells]

\* row[col] for one of the other columns, col being its place in df.columns
Cell(row, col) == row.cells[col - Len(KeyColumns)]

RECURSIVE Unique(_)
Unique(names) ==
    IF names = << >> THEN << >>
    ELSE LET before == Unique(SubSeq(names, 1, Len(names) - 1))
             last == names[Len(names)]
         IN  IF \E i \in 1..Len(before) : before[i] = last
             THEN before
             ELSE Append(before, last)

\* AVAILABLE_YEARS, api.py:23
AvailableYears == {df[i].year_id : i \in 1..Len(df)}

\* AVAILABLE_LOCATIONS, api.py:24: the names in the order of their first row
AvailableLocations == Unique([i \in 1..Len(df) |-> df[i].location_name])

\* DEFAULT_YEAR, api.py:25
DefaultYear == IF 2023 \in AvailableYears THEN 2023 ELSE Max(AvailableYears)

-----------------------------------------------------------------------------
(* detect_location, api.py:78-91 *)

DetectLocationKeepsCase(t) ==
    LET found == SelectSeq(AvailableLocations, LAMBDA loc : Contains(Lower(loc), t))
    IN  IF found # << >> THEN found[1]
        ELSE IF Contains("france", t) THEN "France"
        ELSE IF Contains("italie", t) \/ Contains("italy", t) THEN "Italy"
        ELSE IF Contains("espagne", t) \/ Contains("spain", t) THEN "Spain"
        ELSE IF Contains("allemagne", t) \/ Contains("germany", t) THEN "Germany"
        ELSE "Global"

DetectLocation(t) ==
    LET low == Lower(t)
        found == SelectSeq(AvailableLocations, LAMBDA loc : Contains(Lower(loc), low))
    IN  IF found # << >> THEN found[1]
        ELSE IF Contains("france", low) THEN "France"
        ELSE IF Contains("italie", low) \/ Contains("italy", low) THEN "Italy"
        ELSE IF Contains("espagne", low) \/ Contains("spain", low) THEN "Spain"
        ELSE IF Contains("allemagne", low) \/ Contains("germany", low) THEN "Germany"
        ELSE "Global"

-----------------------------------------------------------------------------
(* get_life_expectancy, api.py:97-133 *)

\* what a call gives: a value returned (exc = ""), or an exception raised
Returned(v) == [exc |-> "", value |-> v]
Raised(e) == [exc |-> e, value |-> None]

RECURSIVE Remove(_, _)
\* s.replace(c, "") for a character c
Remove(s, c) ==
    IF s = "" THEN ""
    ELSE IF Head(s) = c THEN Remove(Tail(s), c)
    ELSE Head(s) \o Remove(Tail(s), c)

\* col_norm, api.py:119
Normalize(col) == Remove(Remove(Lower(col), " "), "_")

IsYearsColumn(col) ==
    LET col_norm == Normalize(col)
    IN  Contains("expectancy", col_norm) /\ Contains("year", col_norm)
IsWeeksColumn(col) ==
    LET col_norm == Normalize(col)
    IN  Contains("expectancy", col_norm) /\ Contains("week", col_norm)

\* years_col and weeks_col after the loop of api.py:118-123: the last column
\* that qualifies, as a place in df.columns; 0 stands for None
YearsCol ==
    LET hits == {c \in 1..Len(columns) : IsYearsColumn(columns[c])}
    IN  IF hits = {} THEN 0 ELSE Max(hits)
WeeksCol ==
    LET hits == {c \in 1..Len(columns) : IsWeeksColumn(columns[c])}
    IN  IF hits = {} THEN 0 ELSE Max(hits)

GetLifeExpectancyColumnsFirst(location, year) ==
    LET y == IF year = None THEN DefaultYear ELSE year[1]
        tmp == SelectSeq(df, LAMBDA r : Lower(r.location_name) = Lower(location))
        sub == SelectSeq(tmp, LAMBDA r : r.year_id = y /\ r.scenario_name = "Reference")
    IN  IF YearsCol = 0 \/ WeeksCol = 0 THEN Raised("KeyError")
        ELSE IF tmp = << >> THEN Returned(None)
        ELSE IF sub = << >> THEN Returned(None)
        ELSE Returned(<<Cell(sub[1], YearsCol), Cell(sub[1], WeeksCol)>>)

GetLifeExpectancyAnyScenario(location, year) ==
    LET y == IF year = None THEN DefaultYear ELSE year[1]
        tmp == SelectSeq(df, LAMBDA r : Lower(r.location_name) = Lower(location))
        sub == SelectSeq(tmp, LAMBDA r : r.year_id = y)
    IN  IF tmp = << >> THEN Returned(None)
        ELSE IF sub = << >> THEN Returned(None)
        ELSE IF YearsCol = 0 \/ WeeksCol = 0 THEN Raised("KeyError")
        ELSE Returned(<<Cell(sub[1], YearsCol), Cell(sub[1], WeeksCol)>>)

\* year is None or <<a year>>
GetLifeExpectancy(location, year) ==
    LET y == IF year = None THEN DefaultYear ELSE year[1]
        tmp == SelectSeq(df, LAMBDA r : Lower(r.location_name) = Lower(location))
        sub == SelectSeq(tmp, LAMBDA r : r.year_id = y /\ r.scenario_name = "Reference")
    IN  IF tmp = << >> THEN Returned(None)
        ELSE IF sub = << >> THEN Returned(None)
        ELSE IF YearsCol = 0 \/ WeeksCol = 0 THEN Raised("KeyError")
        ELSE Returned(<<Cell(sub[1], YearsCol), Cell(sub[1], WeeksCol)>>)

-----------------------------------------------------------------------------
(* compute_remaining_life, api.py:136-139 *)

WeeksPerYear == 52

ComputeRemainingLifeNoFloor(expectancy_years, age) ==
    <<expectancy_years - age, (expectancy_years - age) * WeeksPerYear>>

ComputeRemainingLife(expectancy_years, age) ==
    LET remaining_years ==
            IF 0 > expectancy_years - age THEN 0 ELSE expectancy_years - age
        remaining_weeks == remaining_years * WeeksPerYear
    IN  <<remaining_years, remaining_weeks>>

-----------------------------------------------------------------------------
(* generate_text_from_image, api.py:145-158 (accents left out) *)

GenerateTextFromImage ==
    "Je suis une personne adulte vivant dans un environnement urbain. "
    \o "Mon style de vie semble equilibre, entre travail/etudes et moments sociaux. "
    \o "Je fais parfois attention a ma sante, meme si je pourrais ameliorer "
    \o "certains aspects comme le sommeil, l'alimentation ou l'activite physique.\n\n"
    \o "Age : ?? ans\n"
    \o "Pays : ??\n"
    \o "Habitudes : sport, tabac, alcool, stress, etc."

-----------------------------------------------------------------------------
(* index, api.py:164-220 *)

\* int(x) for a decimal number x >= 0 kept in tenths
Truncate(x) == x \div 10

\* secure_filename, called at api.py:178, on names of letters, digits, ".",
\* "/" and spaces: path separators become spaces, the words are joined by "_",
\* and "." and "_" are stripped from both ends
RECURSIVE JoinWords(_)
JoinWords(s) ==
    IF s = "" THEN ""
    ELSE IF Head(s) \in {" ", "/"}
         THEN (IF Tail(s) = "" \/ Head(Tail(s)) \in {" ", "/"} THEN "" ELSE "_")
              \o JoinWords(Tail(s))
         ELSE Head(s) \o JoinWords(Tail(s))
RECURSIVE StripDots(_)
StripDots(s) ==
    IF s # "" /\ Head(s) \in {".", "_"} THEN StripDots(Tail(s))
    ELSE IF s # "" /\ Ch(s, Len(s)) \in {".", "_"} THEN StripDots(SubSeq(s, 1, Len(s) - 1))
    ELSE s
SecureFilename(name) == StripDots(JoinWords(name))

\* what index gives: the page rendered with result, warning and input_text
\* (status 200) or, an exception escaping, the server's error page (status
\* 500); with the functions called and the file saved, if any
Page(result, warning, input_text, called, saved) ==
    [status |-> 200, result |-> result, warning |-> warning,
     input_text |-> input_text, called |-> called, saved |-> saved]
Crash(called) ==
    [status |-> 500, result |-> None, warning |-> None,
     input_text |-> "", called |-> called, saved |-> None]

\* the result object, api.py:198-213
ResultOf(location, life, age) ==
    [location |-> location,
     year |-> DefaultYear,
     life_expectancy_years |-> life[1],
     life_expectancy_weeks |-> Truncate(life[2]),
     age |-> age,
     remaining_years |->
        IF age # None THEN Some(ComputeRemainingLife(life[1], age[1] * 10)[1]) ELSE None,
     remaining_weeks |->
        IF age # None THEN Some(Truncate(ComputeRemainingLife(life[1], age[1] * 10)[2]))
        ELSE None]

PipelineCalls == <<"detect_location", "estimate_age", "get_life_expectancy">>

PredictBlankUnchecked(input_text) ==
    IF input_text = ""
    THEN Page(None, Some("Veuillez ecrire ou generer un texte."), input_text, << >>, None)
    ELSE LET location == DetectLocation(input_text)
             age == EstimateAge(input_text)
             life == GetLifeExpectancy(location, None)
         IN  IF life.exc # "" THEN Crash(PipelineCalls)
             ELSE IF life.value = None
             THEN Page(None, Some("Aucune donnee trouvee pour " \o location \o "."),
                       input_text, PipelineCalls, None)
             ELSE Page(Some(ResultOf(location, life.value, age)), None,
                       input_text,
                       IF age # None THEN Append(PipelineCalls, "compute_remaining_life")
                       ELSE PipelineCalls,
                       None)

PredictWarningNamesText(input_text) ==
    IF Strip(input_text) = ""
    THEN Page(None, Some("Veuillez ecrire ou generer un texte."), input_text, << >>, None)
    ELSE LET location == DetectLocation(input_text)
             age == EstimateAge(input_text)
             life == GetLifeExpectancy(location, None)
         IN  IF life.exc # "" THEN Crash(PipelineCalls)
             ELSE IF life.value = None
             THEN Page(None, Some("Aucune donnee trouvee pour " \o input_text \o "."),
                       input_text, PipelineCalls, None)
             ELSE Page(Some(ResultOf(location, life.value, age)), None,
                       input_text,
                       IF age # None THEN Append(PipelineCalls, "compute_remaining_life")
                       ELSE PipelineCalls,
                       None)

\* the "predict" branch, api.py:187-213
Predict(input_text) ==
    IF Strip(input_text) = ""
    THEN Page(None, Some("Veuillez ecrire ou generer un texte."), input_text, << >>, None)
    ELSE LET location == DetectLocation(input_text)
             age == EstimateAge(input_text)
             life == GetLifeExpectancy(location, None)
         IN  IF life.exc # "" THEN Crash(PipelineCalls)
             ELSE IF life.value = None
             THEN Page(None, Some("Aucune donnee trouvee pour " \o location \o "."),
                       input_text, PipelineCalls, None)
             ELSE Page(Some(ResultOf(location, life.value, age)), None,
                       input_text,
                       IF age # None THEN Append(PipelineCalls, "compute_remaining_life")
                       ELSE PipelineCalls,
                       None)

\* the "analyze_photo" branch, api.py:175-184; photo is None or <<its filename>>
AnalyzePhoto(input_text, photo) ==
    IF photo # None /\ photo[1] # ""
    THEN Page(None, None, GenerateTextFromImage, <<"generate_text_from_image">>,
              Some(SecureFilename(photo[1])))
    ELSE Page(None, Some("Merci d'ajouter une photo avant d'appuyer sur le bouton."),
              input_text, << >>, None)

\* index: action, user_text and photo are None (not in the form) or <<value>>
Index(method, action, user_text, photo) ==
    IF method = "POST"
    THEN LET input_text == IF user_text = None THEN "" ELSE user_text[1]
         IN  IF action = Some("analyze_photo") THEN AnalyzePhoto(input_text, photo)
             ELSE IF action = Some("predict") THEN Predict(input_text)
             ELSE Page(None, None, input_text, << >>, None)
    ELSE Page(None, None, "", << >>, None)

-----------------------------------------------------------------------------
(* The analyzer's functions applied to bounded texts *)

MaxFragments == 4

TextFragments == {"1900", "1990", "2021", "19", "21", "1", " ", "ans", "ANS"}

CurrentYears == {2020, 2021}

\* the texts made of at most k fragments
RECURSIVE Texts(_, _)
Texts(F, k) ==
    IF k = 0 THEN {""}
    ELSE LET shorter == Texts(F, k - 1)
         IN  shorter \cup {s \o f : s \in shorter, f \in F}

\* a dataset for the specifications that do not read it
DefaultColumns == KeyColumns \o <<"life_expectancy_years", "life_expectancy_weeks">>
DefaultTable == <<Row("France", 2023, "Reference", <<823, 42796>>)>>

InitText ==
    /\ df = DefaultTable
    /\ columns = DefaultColumns
    /\ currentYear \in CurrentYears
    /\ text \in Texts(TextFragments, MaxFragments)
    /\ op = "idle"
    /\ args = << >>
    /\ ret = None
    /\ calls = << >>
    /\ uploads = {}

CallDetectBirthYear ==
    /\ op = "idle"
    /\ op' = "detect_birth_year"
    /\ args' = <<text>>
    /\ ret' = DetectBirthYear(text)
    /\ UNCHANGED <<df, columns, currentYear, text, calls, uploads>>

CallDetectAge ==
    /\ op = "idle"
    /\ op' = "detect_age"
    /\ args' = <<text>>
    /\ ret' = DetectAge(text)
    /\ UNCHANGED <<df, columns, currentYear, text, calls, uploads>>

CallEstimateAge ==
    /\ op = "idle"
    /\ op' = "estimate_age"
    /\ args' = <<text>>
    /\ ret' = EstimateAge(text)
    /\ UNCHANGED <<df, columns, currentYear, text, calls, uploads>>

NextText == CallDetectBirthYear \/ CallDetectAge \/ CallEstimateAge

SpecText == InitText /\ [][NextText]_vars

-----------------------------------------------------------------------------
(* detect_location applied to bounded datasets and texts *)

MaxLocations == 2
MaxLocationFragments == 2

\* the non-empty sequences of at most k of the rows
TablesOf(rows, k) == UNION {[1..n -> rows] : n \in 1..k}

LocationNames == {"france", "Niger", "Nigeria"}

LocationFragments ==
    {"FRANCE", "Italie", "italy", "Espagne", "SPAIN", "allemagne", "Germany",
     "niger", "NIGERIA", " "}

InitLocation ==
    /\ df \in TablesOf({Row(n, 2023, "Reference", <<823, 42796>>) : n \in LocationNames},
                        MaxLocations)
    /\ columns = DefaultColumns
    /\ currentYear = Max(CurrentYears)
    /\ text \in Texts(LocationFragments, MaxLocationFragments)
    /\ op = "idle"
    /\ args = << >>
    /\ ret = None
    /\ calls = << >>
    /\ uploads = {}

CallDetectLocation ==
    /\ op = "idle"
    /\ op' = "detect_location"
    /\ args' = <<text>>
    /\ ret' = DetectLocation(text)
    /\ UNCHANGED <<df, columns, currentYear, text, calls, uploads>>

NextLocation == CallDetectLocation

SpecLocation == InitLocation /\ [][NextLocation]_vars

-----------------------------------------------------------------------------
(* get_life_expectancy applied to bounded datasets *)

MaxRows == 2

LifeLocations == {"France", "niger"}
TableYears == {2023, 2024}
Scenarios == {"Reference", "Optimistic"}
CellBases == {705, 823}

\* the columns that follow the key columns, in the datasets tried
ExtraColumnSets ==
    {<<"life_expectancy_years", "life_expectancy_weeks">>,
     <<"Life Expectancy Years", "Life Expectancy Weeks", "expectancy_years_low">>,
     <<"life_expectancy_years">>,
     <<"life_expectancy_weeks", "years">>,
     <<"population">>}

\* the rows of a dataset with n columns after the key columns
Rows(locations, bases, n) ==
    {Row(loc, year, scenario, [j \in 1..n |-> b + j]) :
        loc \in locations, year \in TableYears, scenario \in Scenarios, b \in bases}

QueryLocations == {"FRANCE", "Niger", "Global"}
QueryYears == {None} \cup {Some(y) : y \in TableYears}

InitLife ==
    /\ columns \in {KeyColumns \o extra : extra \in ExtraColumnSets}
    /\ df \in TablesOf(Rows(LifeLocations, CellBases, Len(columns) - Len(KeyColumns)),
                        MaxRows)
    /\ currentYear = Max(CurrentYears)
    /\ text = ""
    /\ op = "idle"
    /\ args = << >>
    /\ ret = None
    /\ calls = << >>
    /\ uploads = {}

CallGetLifeExpectancy ==
    \E location \in QueryLocations, year \in QueryYears :
        /\ op = "idle"
        /\ op' = "get_life_expectancy"
        /\ args' = <<location, year>>
        /\ ret' = GetLifeExpectancy(location, year)
        /\ UNCHANGED <<df, columns, currentYear, text, calls, uploads>>

NextLife == CallGetLifeExpectancy

SpecLife == InitLife /\ [][NextLife]_vars

-----------------------------------------------------------------------------
(* compute_remaining_life applied to bounded numbers *)

MaxExpectancy == 85
MaxCalcAge == 40

InitCalc ==
    /\ df = DefaultTable
    /\ columns = DefaultColumns
    /\ currentYear = Max(CurrentYears)
    /\ text = ""
    /\ op = "idle"
    /\ args = << >>
    /\ ret = None
    /\ calls = << >>
    /\ uploads = {}

CallComputeRemainingLife ==
    \E expectancy_years \in 0..MaxExpectancy, age \in 0..MaxCalcAge :
        /\ op = "idle"
        /\ op' = "compute_remaining_life"
        /\ args' = <<expectancy_years, age>>
        /\ ret' = ComputeRemainingLife(expectancy_years, age)
        /\ UNCHANGED <<df, columns, currentYear, text, calls, uploads>>

NextCalc == CallComputeRemainingLife

SpecCalc == InitCalc /\ [][NextCalc]_vars

-----------------------------------------------------------------------------
(* The server: one request at a time *)

MaxHttpRows == 1
MaxHttpFragments == 2

HttpLocations == {"France", "Global"}
HttpFragments == {"France", "italie", " ", "21 ans"}
\* with a line break alone, and two lines of the generated text left as they are
HttpTexts ==
    Texts(HttpFragments, MaxHttpFragments) \cup {"\n", "Age : ?? ans\nPays : ??\n"}
HttpExtraColumnSets ==
    {<<"life_expectancy_years", "life_expectancy_weeks">>, <<"life_expectancy_years">>}
Photos == {None, Some(""), Some("photo.png"), Some("../photo.png")}

InitHttp ==
    /\ columns \in {KeyColumns \o extra : extra \in HttpExtraColumnSets}
    /\ df \in TablesOf(Rows(HttpLocations, {823}, Len(columns) - Len(KeyColumns)),
                        MaxHttpRows)
    /\ currentYear \in CurrentYears
    /\ text = ""
    /\ op = "idle"
    /\ args = << >>
    /\ ret = None
    /\ calls = << >>
    /\ uploads = {}

\* index runs on a request
Handle(method, action, user_text, photo) ==
    LET page == Index(method, action, user_text, photo)
    IN  /\ op = "idle"
        /\ op' = "index"
        /\ args' = <<method, action, user_text, photo>>
        /\ ret' = [status |-> page.status, result |-> page.result,
                   warning |-> page.warning, input_text |-> page.input_text]
        /\ calls' = page.called
        /\ uploads' = IF page.saved = None THEN uploads ELSE uploads \cup {page.saved[1]}
        /\ UNCHANGED <<df, columns, currentYear, text>>

Get == Handle("GET", None, None, None)

PostAnalyzePhoto ==
    \E photo \in Photos, user_text \in {None, Some("France")} :
        Handle("POST", Some("analyze_photo"), user_text, photo)

PostPredict ==
    \E user_text \in {None} \cup {Some(t) : t \in HttpTexts} :
        Handle("POST", Some("predict"), user_text, None)

PostOther ==
    \E action \in {None, Some("reset")}, user_text \in {None, Some("France")} :
        Handle("POST", action, user_text, None)

\* the response is sent; the server waits for the next request
Respond ==
    /\ op = "index"
    /\ op' = "idle"
    /\ args' = << >>
    /\ ret' = None
    /\ calls' = << >>
    /\ UNCHANGED <<df, columns, currentYear, text, uploads>>

NextHttp == Get \/ PostAnalyzePhoto \/ PostPredict \/ PostOther \/ Respond

SpecHttp == InitHttp /\ [][NextHttp]_vars

-----------------------------------------------------------------------------
(* What the analyzer's functions are to return, read off the text itself *)

\* position e ends a run of digits of t
EndsDigitRun(t, e) ==
    IsDigit(Ch(t, e)) /\ (e = Len(t) \/ ~IsDigit(Ch(t, e + 1)))

\* where the run of digits ending at e starts
DigitRunStart(t, e) ==
    Min({b \in 1..e : AllDigits(SubSeq(t, b, e))})

\* after position e come only whitespace and then "ans"
FollowedByAns(t, e) ==
    \E j \in (e + 1)..Len(t) :
        /\ \A q \in (e + 1)..(j - 1) : IsSpace(Ch(t, q))
        /\ StartsAt(t, j, "ans")

\* the ends of the digit runs that state an age: "<digits>ans", "<digits> ans"
StatedAgeEnds(t) ==
    {e \in 1..Len(t) : EndsDigitRun(t, e) /\ FollowedByAns(t, e)}

\* the number the whole run ending at e spells
WholeNumberAt(t, e) == ParseInt(SubSeq(t, DigitRunStart(t, e), e))

\* the number its last three digits spell (the whole run when it has at most three)
LastThreeAt(t, e) == ParseInt(SubSeq(t, Max({DigitRunStart(t, e), e - 2}), e))

InAgeRange(x) == 0 < x /\ x < 120

FirstStatedAge(t) ==
    LET good == {e \in StatedAgeEnds(t) : InAgeRange(LastThreeAt(t, e))}
    IN  IF good = {} THEN None ELSE Some(LastThreeAt(t, Min(good)))

\* the 4-digit year written at position p
YearAt(t, p) == ParseInt(SubSeq(t, p, p + 3))

\* the positions where a year of 1900-2029 is written
YearPositions(t) == {p \in 1..Len(t) : YearPatternAt(t, p)}

\* p starts a match of the scan: a year is written there and no match covers p
RECURSIVE IsYearMatch(_, _)
IsYearMatch(t, p) ==
    /\ YearPatternAt(t, p)
    /\ \A q \in 1..(p - 1) : q >= p - 3 => ~IsYearMatch(t, q)

YearMatches(t) == {p \in 1..Len(t) : IsYearMatch(t, p)}

\* a 4-digit number of its own is written at p: no digit before it, none after
StandaloneYearAt(t, p) ==
    /\ YearPatternAt(t, p)
    /\ p = 1 \/ ~IsDigit(Ch(t, p - 1))
    /\ p + 3 = Len(t) \/ ~IsDigit(Ch(t, p + 4))

-----------------------------------------------------------------------------
(* C4 *)

\* C4 as stated: whenever the text holds a number X with 0 < X < 120 followed,
\* at once or after whitespace, by "ans", detect_age returns X.
C4_Original ==
    op = "detect_age" =>
        \A e \in StatedAgeEnds(text) :
            InAgeRange(WholeNumberAt(text, e)) => ret = Some(WholeNumberAt(text, e))

\* C4 amended: detect_age returns the first X with 0 < X < 120 among the digit
\* runs followed, at once or after whitespace, by "ans", X being read from the
\* run's last three digits (the whole run when it has at most three), and
\* returns absent when there is no such run.
C4_DetectAgeFirstStated ==
    op = "detect_age" => ret = FirstStatedAge(text)

\* two ages in range are stated and the first of them came back
C4_Witness ==
    /\ op = "detect_age"
    /\ Cardinality({LastThreeAt(text, e) : e \in
           {e \in StatedAgeEnds(text) : InAgeRange(LastThreeAt(text, e))}}) >= 2
    /\ ret # None

-----------------------------------------------------------------------------
(* C7 *)

\* C7 as stated: detect_birth_year returns the first year match y with
\* 0 <= current year - y <= 120, and absent when no match is such.
C7_Original ==
    op = "detect_birth_year" =>
        LET good == {p \in YearMatches(text) :
                        /\ 0 <= currentYear - YearAt(text, p)
                        /\ currentYear - YearAt(text, p) <= 120}
        IN  ret = IF good = {} THEN None ELSE Some(YearAt(text, Min(good)))

\* C7 amended: detect_birth_year returns the first year match y with
\* 1900 <= y <= current year (an age that is not negative, and may exceed 120),
\* and absent when no match is such.
C7_DetectBirthYearFirstPast ==
    op = "detect_birth_year" =>
        LET good == {p \in YearMatches(text) :
                        /\ 1900 <= YearAt(text, p)
                        /\ YearAt(text, p) <= currentYear}
        IN  ret = IF good = {} THEN None ELSE Some(YearAt(text, Min(good)))

\* the first match is a year to come, and a later match came back
C7_Witness ==
    /\ op = "detect_birth_year"
    /\ ret # None
    /\ YearAt(text, Min(YearMatches(text))) > currentYear

-----------------------------------------------------------------------------
(* C5 *)

-----------------------------------------------------------------------------
(* C6 *)

\* C6: estimate_age returns detect_age's value on the lower-cased text when
\* there is one, whatever birth year the text holds; otherwise current year
\* minus the detected birth year if that is strictly between 0 and 120;
\* otherwise absent.
C6_EstimateAgePrefersStated ==
    op = "estimate_age" =>
        LET low == Lower(text)
            born == DetectBirthYear(low)
        IN  /\ DetectAge(low) # None => ret = DetectAge(low)
            /\ (DetectAge(low) = None /\ born # None
                    /\ InAgeRange(currentYear - born[1]))
                => ret = Some(currentYear - born[1])
            /\ (DetectAge(low) = None
                    /\ (born = None \/ ~InAgeRange(currentYear - born[1])))
                => ret = None

\* an age is stated (in capitals), a birth year giving another age is written
C6_Witness ==
    /\ op = "estimate_age"
    /\ DetectAge(text) = None
    /\ DetectAge(Lower(text)) # None
    /\ DetectBirthYear(Lower(text)) # None
    /\ InAgeRange(currentYear - DetectBirthYear(Lower(text))[1])
    /\ ret # Some(currentYear - DetectBirthYear(Lower(text))[1])
    /\ ret = DetectAge(Lower(text))

-----------------------------------------------------------------------------
(* C1 *)

\* the rows whose location name is in the text, letter case apart
RowsNamedIn(t) ==
    {i \in 1..Len(df) : Contains(Lower(df[i].location_name), Lower(t))}

\* C1: detect_location returns the first dataset location name, in the
\* dataset's order, that the text contains letter case apart; if there is none,
\* the fallback of the first keyword found, in the order France, Italy
\* (italie/italy), Spain (espagne/spain), Germany (allemagne/germany); and
\* "Global" if nothing is found.
C1_DetectLocationFirstMatch ==
    op = "detect_location" =>
        LET low == Lower(text)
        IN  /\ RowsNamedIn(text) # {}
                => ret = df[Min(RowsNamedIn(text))].location_name
            /\ RowsNamedIn(text) = {}
                => ret = IF Contains("france", low) THEN "France"
                         ELSE IF Contains("italie", low) \/ Contains("italy", low)
                              THEN "Italy"
                         ELSE IF Contains("espagne", low) \/ Contains("spain", low)
                              THEN "Spain"
                         ELSE IF Contains("allemagne", low) \/ Contains("germany", low)
                              THEN "Germany"
                         ELSE "Global"

\* the text contains two of the dataset's names, written in another case
C1_Witness ==
    /\ op = "detect_location"
    /\ Cardinality({df[i].location_name : i \in RowsNamedIn(text)}) >= 2
    /\ ~Contains(Lower(ret), text)
    /\ ret = df[Min(RowsNamedIn(text))].location_name

-----------------------------------------------------------------------------
(* C2, C3 *)

\* the year a call asks for: the default year when none is given
AskedYear(year) == IF year = None THEN DefaultYear ELSE year[1]

\* the rows of the location (letter case apart), the year and "Reference"
MatchingRows(location, year) ==
    {i \in 1..Len(df) :
        /\ Lower(df[i].location_name) = Lower(location)
        /\ df[i].year_id = AskedYear(year)
        /\ df[i].scenario_name = "Reference"}

HasYearsColumn == \E c \in 1..Len(columns) : IsYearsColumn(columns[c])
HasWeeksColumn == \E c \in 1..Len(columns) : IsWeeksColumn(columns[c])

\* C2: get_life_expectancy returns the (years, weeks) pair of the first row
\* whose location is the argument letter case apart, whose year is the year
\* asked for (the default year when none is given) and whose scenario is
\* "Reference"; it returns absent exactly when there is no such row. (With
\* such a row and an expectancy column missing it returns nothing: C3.)
C2_GetLifeExpectancyFirstRow ==
    op = "get_life_expectancy" =>
        LET M == MatchingRows(args[1], args[2])
        IN  /\ (ret = Returned(None)) <=> (M = {})
            /\ (M # {} /\ HasYearsColumn /\ HasWeeksColumn) => ret.exc = ""
            /\ (M # {} /\ ret.exc = "") =>
                    \E yc \in {c \in 1..Len(columns) : IsYearsColumn(columns[c])} :
                        \E wc \in {c \in 1..Len(columns) : IsWeeksColumn(columns[c])} :
                            ret.value = <<Cell(df[Min(M)], yc), Cell(df[Min(M)], wc)>>

\* two rows with different cells qualify, under a name written in another
\* case than the argument, and the first one's pair came back
C2_Witness ==
    /\ op = "get_life_expectancy"
    /\ ret.exc = ""
    /\ LET M == MatchingRows(args[1], args[2])
       IN  /\ Cardinality(M) >= 2
           /\ \E i \in M : df[i].cells # df[Min(M)].cells
           /\ df[Min(M)].location_name # args[1]
           /\ ret.value = <<Cell(df[Min(M)], YearsCol), Cell(df[Min(M)], WeeksCol)>>

\* C3 as stated: with no years-expectancy column or no weeks-expectancy
\* column, every call fails with a lookup error.
C3_Original ==
    (op = "get_life_expectancy" /\ ~(HasYearsColumn /\ HasWeeksColumn))
        => ret.exc = "KeyError"

\* C3 amended: with no years-expectancy column or no weeks-expectancy column,
\* a call fails with a lookup error exactly when a "Reference" row matches the
\* location and the year; when none does it returns absent, as with the
\* columns present.
C3_LookupErrorWhenRowFound ==
    op = "get_life_expectancy" =>
        IF MatchingRows(args[1], args[2]) # {}
        THEN ret = Raised("KeyError") \/ (HasYearsColumn /\ HasWeeksColumn)
        ELSE ret = Returned(None) \/ (HasYearsColumn /\ HasWeeksColumn)

\* a column is missing, a row matches, and the call raised
C3_Witness ==
    /\ op = "get_life_expectancy"
    /\ HasYearsColumn /\ ~HasWeeksColumn
    /\ MatchingRows(args[1], args[2]) # {}
    /\ ret.exc = "KeyError"

-----------------------------------------------------------------------------
(* C8 *)

\* C8: compute_remaining_life returns max(expectancy - age, 0) years and 52
\* times as many weeks; neither is negative, both are 0 when age >= expectancy,
\* and (80, 30) gives (50, 2600).
C8_RemainingLifeFloored ==
    op = "compute_remaining_life" =>
        LET expectancy == args[1]
            age == args[2]
        IN  /\ ret[1] = Max({expectancy - age, 0})
            /\ ret[2] = ret[1] * 52
            /\ ret[1] >= 0 /\ ret[2] >= 0
            /\ age >= expectancy => ret = <<0, 0>>
            /\ (expectancy = 80 /\ age = 30) => ret = <<50, 2600>>

\* the age is above the expectancy and nothing remains
C8_Witness ==
    /\ op = "compute_remaining_life"
    /\ args[2] > args[1]
    /\ ret = <<0, 0>>

-----------------------------------------------------------------------------
(* C9, C10 *)

IsPredict == op = "index" /\ args[1] = "POST" /\ args[2] = Some("predict")

\* the submitted text; "" when the form has none
Submitted == IF args[3] = None THEN "" ELSE args[3][1]

Blank(t) == \A i \in 1..Len(t) : IsSpace(Ch(t, i))

\* C9: a POST with action "predict" whose user_text is missing, empty or only
\* whitespace gets a warning and no result, and neither location detection,
\* age estimation nor the table lookup runs.
C9_BlankTextWarns ==
    (IsPredict /\ Blank(Submitted)) =>
        /\ ret.status = 200
        /\ ret.warning # None
        /\ ret.result = None
        /\ \A i \in 1..Len(calls) :
              calls[i] \notin {"detect_location", "estimate_age", "get_life_expectancy"}

\* the text submitted is whitespace, not empty
C9_Witness ==
    /\ IsPredict
    /\ args[3] # None
    /\ Submitted # ""
    /\ Blank(Submitted)
    /\ ret.warning # None

\* C10: a POST with action "predict" and a text that is not blank, whose
\* detected location (a keyword's fallback and "Global" included) has no
\* "Reference" row for the default year, gets a warning naming that location
\* and no result; and no response holds both a result and a warning.
C10_NoRowWarnsWithLocation ==
    /\ (IsPredict /\ ~Blank(Submitted)
            /\ MatchingRows(DetectLocation(Submitted), None) = {})
        => /\ ret.status = 200
           /\ ret.result = None
           /\ ret.warning # None
           /\ Contains(DetectLocation(Submitted), ret.warning[1])
    /\ op = "index" => (ret.result = None \/ ret.warning = None)

\* the location comes from a keyword, the dataset does not have it, and the
\* warning names it
C10_Witness ==
    /\ IsPredict
    /\ ~Blank(Submitted)
    /\ DetectLocation(Submitted) = "Italy"
    /\ \A i \in 1..Len(df) : df[i].location_name # "Italy"
    /\ ret.result = None
    /\ ret.warning = Some("Aucune donnee trouvee pour Italy.")

====
